---- MODULE Spec2Model ----
(***************************************************************************)
(* A model of parser.c (amyinorbit/parser.c): the classifying scanner and  *)
(* the token consumption primitives built on it.                           *)
(*                                                                         *)
(* Bytes are one-character strings.  Pointers into the source are offsets  *)
(* from parser->src (0-based), so parser->ptr == parser->end reads         *)
(* parser.ptr = parser.end.  The parser struct is one record, `parser`;    *)
(* the memory it scans is `mem`.  The record carries one observation that  *)
(* is no field of parser_t: `oob`, the offsets at or past parser->end that *)
(* advance has dereferenced.                                               *)
(***************************************************************************)
EXTENDS Integers, Sequences, FiniteSets, TLC

VARIABLES
    mem,     \* the bytes at parser->src: the span handed to parse_init, then
             \* the caller's bytes that happen to follow it in memory
    parser,  \* the parser_t struct
    out,     \* the output buffer handed to the last call, as the call left it
             \* (null for a call that takes no buffer)
    call,    \* the last API call: its name, its argument and what it returned
    frame,   \* the locals of make_token while the scanner is followed one
             \* character at a time (no frame between calls)
    heap     \* what the allocator knows of the memory at parser->src

vars == <<mem, parser, out, call, frame, heap>>

-----------------------------------------------------------------------------
(* Bounds of the model.                                                    *)

MaxLen == 3      \* longest source span handed to parse_init
MaxCap == 3      \* largest capacity handed to parse_text

-----------------------------------------------------------------------------
(* Characters.                                                             *)

NUL == "NUL"     \* the byte '\0'; also what advance/peek return (0) once an error is latched
EOF == "EOF"     \* the int EOF (-1) of <stdio.h>
LF  == "\n"

Digits == {"0", "1", "2", "3", "4", "5", "6", "7", "8", "9"}
Letters == {"a", "b", "c", "d", "e", "f", "g", "h", "i", "j", "k", "l", "m",
            "n", "o", "p", "q", "r", "s", "t", "u", "v", "w", "x", "y", "z",
            "A", "B", "C", "D", "E", "F", "G", "H", "I", "J", "K", "L", "M",
            "N", "O", "P", "Q", "R", "S", "T", "U", "V", "W", "X", "Y", "Z"}

isdigit(c) == c \in Digits
isalnum(c) == c \in Digits \cup Letters
isspace(c) == c \in {" ", "\t", "\n", "\r", "\f"}

DigitVal(c) ==
    CASE c = "0" -> 0 [] c = "1" -> 1 [] c = "2" -> 2 [] c = "3" -> 3
      [] c = "4" -> 4 [] c = "5" -> 5 [] c = "6" -> 6 [] c = "7" -> 7
      [] c = "8" -> 8 [] c = "9" -> 9

\* The one element of a one-element set.  {F(x) : x \in {e}} binds x to the
\* value of e, so that F works on a value it need not compute again.
The(S) == CHOOSE x \in S : TRUE

\* The byte at offset i from parser->src.  Past the caller's bytes the
\* memory holds the terminator of the caller's string.
Byte(i) == IF i < Len(mem) THEN mem[i + 1] ELSE NUL

-----------------------------------------------------------------------------
(* Token kinds and the values of the token's union { double f64; int64_t   *)
(* i64; }.                                                                 *)

TOK_INVALID == "TOK_INVALID"
TOK_TEXT    == "TOK_TEXT"
TOK_INT     == "TOK_INT"
TOK_FLOAT   == "TOK_FLOAT"
TOK_EOF     == "TOK_EOF"
tok_kind_t  == {TOK_INVALID, TOK_TEXT, TOK_INT, TOK_FLOAT, TOK_EOF}

\* An int64_t holding the number n.
I64(n) == [cls |-> "i64", n |-> n]

\* A double holding (-1)^neg * m * 10^e, written so that equal numbers are
\* equal records: m carries no trailing zero, and zero keeps only its sign.
RECURSIVE Normal(_, _, _)
Normal(neg, m, e) ==
    IF m = 0 THEN [cls |-> "f64", neg |-> neg, m |-> 0, e |-> 0]
    ELSE IF m % 10 = 0 THEN Normal(neg, m \div 10, e + 1)
    ELSE [cls |-> "f64", neg |-> neg, m |-> m, e |-> e]

F64(neg, m, e) == Normal(neg, m, e)
PosZero == F64(FALSE, 0, 0)
NAN == [cls |-> "nan"]

\* The union is modelled by the member written last.  All bits zero (memset)
\* is the int64_t 0 and the double +0.0 at once.  Reading the other member
\* reinterprets the bits: the result is the number 0 exactly when the bits
\* are all zero, and otherwise a bit pattern that is no number of the model.
ReadI64(u) ==
    IF u.cls = "i64" THEN u
    ELSE IF u = PosZero THEN I64(0)
    ELSE [cls |-> "i64_bits_of", f64 |-> u]

ReadF64(u) ==
    IF u.cls = "f64" THEN u
    ELSE IF u = I64(0) THEN PosZero
    ELSE [cls |-> "f64_bits_of", i64 |-> u]

\* The conversion (double)i64 of the C language.
WidenI64(i) ==
    IF i.cls = "i64"
    THEN F64(i.n < 0, IF i.n < 0 THEN -i.n ELSE i.n, 0)
    ELSE [cls |-> "f64_widened", i64 |-> i]

-----------------------------------------------------------------------------
(* atol and atof of <stdlib.h>, reading memory from offset s on.           *)

RECURSIVE SkipSpace(_)
SkipSpace(i) == IF isspace(Byte(i)) THEN SkipSpace(i + 1) ELSE i

\* The digits from offset i on: their value continuing acc, how many there
\* are, and the offset of the first byte that is no digit.
RECURSIVE ReadDigits(_, _, _)
ReadDigits(i, acc, n) ==
    IF isdigit(Byte(i)) THEN ReadDigits(i + 1, acc * 10 + DigitVal(Byte(i)), n + 1)
    ELSE [val |-> acc, n |-> n, at |-> i]

atol(s) ==
    LET i0 == SkipSpace(s)
        neg == Byte(i0) = "-"
        i1 == IF Byte(i0) \in {"+", "-"} THEN i0 + 1 ELSE i0
        d == ReadDigits(i1, 0, 0)
    IN  I64(IF neg THEN -d.val ELSE d.val)

\* strtod's decimal form: sign, digits with an optional '.', and an exponent
\* that counts only when it has a digit.  (Its "inf", "nan" and "0x" forms
\* need the letters i, n, f, x, none of which is in the model's alphabets.)
atof(s) ==
    LET i0 == SkipSpace(s)
        neg == Byte(i0) = "-"
        i1 == IF Byte(i0) \in {"+", "-"} THEN i0 + 1 ELSE i0
        ip == ReadDigits(i1, 0, 0)
        dot == Byte(ip.at) = "."
        fp == IF dot THEN ReadDigits(ip.at + 1, ip.val, 0)
              ELSE [val |-> ip.val, n |-> 0, at |-> ip.at]
        hasExp == Byte(fp.at) \in {"e", "E"}
        eneg == Byte(fp.at + 1) = "-"
        i2 == IF Byte(fp.at + 1) \in {"+", "-"} THEN fp.at + 2 ELSE fp.at + 1
        ep == ReadDigits(i2, 0, 0)
        exp == IF hasExp /\ ep.n > 0 THEN (IF eneg THEN -ep.val ELSE ep.val) ELSE 0
    IN  IF ip.n + fp.n = 0 THEN PosZero
        ELSE F64(neg, fp.val, exp - fp.n)

-----------------------------------------------------------------------------
(* The scanner.                                                            *)

NULL == <<>>     \* parser->error when no error is latched

\* static int advance(parser_t *parser): the parser after the call and the
\* int it returns.  It dereferences the pointer twice: *parser->ptr++ for
\* the character, *parser->ptr for the line count.
advance(p) ==
    IF p.error # NULL THEN [p |-> p, c |-> NUL]
    ELSE IF p.ptr = p.end THEN [p |-> p, c |-> EOF]
    ELSE LET current == Byte(p.ptr)
             q == [p EXCEPT !.ptr = p.ptr + 1,
                            !.oob = p.oob \cup {o \in {p.ptr, p.ptr + 1} : o >= p.end}]
         IN  [p |-> IF Byte(q.ptr) = LF
                    THEN [q EXCEPT !.line = q.line + 1, !.column = 0]
                    ELSE [q EXCEPT !.column = q.column + 1],
              c |-> current]

peek(p) ==
    IF p.error # NULL THEN NUL
    ELSE IF p.ptr = p.end THEN EOF
    ELSE Byte(p.ptr)

\* The while loop of the '#' case.
RECURSIVE skip_comment(_)
skip_comment(p) ==
    IF peek(p) # LF /\ peek(p) # EOF
    THEN The({skip_comment(q) : q \in {advance(p).p}})
    ELSE p

\* skip_whitespace without its case '#'.
RECURSIVE skip_whitespace_no_comment(_)
skip_whitespace_no_comment(p) ==
    IF peek(p) \in {"\t", "\r", " ", LF}
    THEN The({skip_whitespace_no_comment(q) : q \in {advance(p).p}})
    ELSE p


RECURSIVE skip_whitespace(_)
skip_whitespace(p) ==
    IF peek(p) \in {"\t", "\r", " ", LF}
    THEN The({skip_whitespace(q) : q \in {advance(p).p}})
    ELSE IF peek(p) = "#"
    THEN The({skip_whitespace(q) : q \in {skip_comment(p)}})
    ELSE p

is_tok_char(c) == isalnum(c) \/ c = "." \/ c = "+" \/ c = "-"

STATE_INT      == "STATE_INT"
STATE_FLOAT    == "STATE_FLOAT"
STATE_EXP_SIGN == "STATE_EXP_SIGN"
STATE_EXP      == "STATE_EXP"
STATE_TEXT     == "STATE_TEXT"

\* The switch(state) with a STATE_TEXT that a digit takes back to
\* STATE_INT.
next_state_tightening(state, c) ==
    CASE state = STATE_INT ->
            IF c = "." THEN STATE_FLOAT
            ELSE IF ~isdigit(c) THEN STATE_TEXT ELSE state
      [] state = STATE_FLOAT ->
            IF c = "E" \/ c = "e" THEN STATE_EXP_SIGN
            ELSE IF ~isdigit(c) THEN STATE_TEXT ELSE state
      [] state = STATE_EXP_SIGN ->
            IF c = "+" \/ c = "-" THEN STATE_EXP ELSE STATE_TEXT
      [] state = STATE_EXP ->
            IF ~isdigit(c) THEN STATE_TEXT ELSE state
      [] state = STATE_TEXT ->
            IF isdigit(c) THEN STATE_INT ELSE state


\* The switch(state) of make_token's loop: the state after character c.
next_state(state, c) ==
    CASE state = STATE_INT ->
            IF c = "." THEN STATE_FLOAT
            ELSE IF ~isdigit(c) THEN STATE_TEXT ELSE state
      [] state = STATE_FLOAT ->
            IF c = "E" \/ c = "e" THEN STATE_EXP_SIGN
            ELSE IF ~isdigit(c) THEN STATE_TEXT ELSE state
      [] state = STATE_EXP_SIGN ->
            IF c = "+" \/ c = "-" THEN STATE_EXP ELSE STATE_TEXT
      [] state = STATE_EXP ->
            IF ~isdigit(c) THEN STATE_TEXT ELSE state
      [] state = STATE_TEXT -> state

\* The switch(state) after the loop.
final_kind(state) ==
    CASE state = STATE_INT -> TOK_INT
      [] state \in {STATE_FLOAT, STATE_EXP} -> TOK_FLOAT
      [] OTHER -> TOK_TEXT

\* make_token from the end of its loop on: the kind, the length and the
\* value of the token.
make_token_end(p, state, len) ==
    LET kind == final_kind(state)
        val == IF kind = TOK_INT THEN atol(p.tok.start)
               ELSE IF kind = TOK_FLOAT THEN atof(p.tok.start)
               ELSE p.tok.val
    IN  [p EXCEPT !.tok.kind = kind, !.tok.len = len, !.tok.val = val]

\* One turn of the for(;;) of make_token: it advances, and leaves the loop
\* when the character it got is no token character.
make_token_turn(p, state, len) ==
    The({IF ~is_tok_char(a.c)
         THEN [done |-> TRUE, p |-> a.p, state |-> state, len |-> len]
         ELSE [done |-> FALSE, p |-> a.p, state |-> next_state(state, a.c), len |-> len + 1]
         : a \in {advance(p)}})

RECURSIVE make_token_loop(_, _, _)
make_token_loop(p, state, len) ==
    The({IF t.done THEN make_token_end(t.p, t.state, t.len)
         ELSE make_token_loop(t.p, t.state, t.len)
         : t \in {make_token_turn(p, state, len)}})

make_token(p) == make_token_loop(advance(p).p, STATE_INT, 1)

\* lex down to int c = peek(parser): whitespace and comments are skipped
\* and the token's start, line and column are set.
lex_start(p) ==
    The({[q EXCEPT !.tok.start = q.ptr,
                   !.tok.line = q.line,
                   !.tok.column = q.column] : q \in {skip_whitespace(p)}})

\* lex without its first line, if(parser->error) return &parser->tok.
lex_unguarded(p) ==
    The({IF peek(t) = EOF THEN [t EXCEPT !.tok.kind = TOK_EOF]
         ELSE IF is_tok_char(peek(t)) THEN make_token(t)
         ELSE [t EXCEPT !.tok.kind = TOK_INVALID]
         : t \in {lex_start(p)}})

lex(p) ==
    IF p.error # NULL THEN p
    ELSE The({IF peek(t) = EOF THEN [t EXCEPT !.tok.kind = TOK_EOF]
              ELSE IF is_tok_char(peek(t)) THEN make_token(t)
              ELSE [t EXCEPT !.tok.kind = TOK_INVALID]
              : t \in {lex_start(p)}})

-----------------------------------------------------------------------------
(* Construction.                                                           *)

NULLPTR == -1    \* a null pointer where the model keeps offsets

\* memset(parser, 0, sizeof(*parser)): every pointer null, every number 0,
\* the kind the enumerator whose value is 0.
ZeroParser ==
    [owns_src |-> FALSE,
     src |-> NULLPTR,
     end |-> NULLPTR,
     ptr |-> NULLPTR,
     line |-> 0,
     column |-> 0,
     tok |-> [kind |-> TOK_INVALID, start |-> NULLPTR, len |-> 0,
              line |-> 0, column |-> 0, val |-> I64(0)],
     error |-> NULL,
     oob |-> {}]

\* parse_init down to its call of lex: memset and the field assignments.
parse_init_fields(len) ==
    [ZeroParser EXCEPT !.owns_src = FALSE,
                       !.src = 0,
                       !.end = len,
                       !.ptr = 0,
                       !.line = 0,
                       !.column = 1,
                       !.error = NULL,
                       !.tok.kind = TOK_INVALID]

\* parse_init(parser, src, len): memset, the field assignments, and the
\* first lex.
parse_init(len) == lex(parse_init_fields(len))

-----------------------------------------------------------------------------
(* Errors.                                                                 *)

\* vsprintf_alloc(fmt, args): the formatted message, kept as the format
\* followed by the arguments printed into it.
vsprintf_alloc(fmt, args) == <<fmt>> \o args

\* parse_fail without its first line, if(parser->error) return.
parse_fail_overwrite(p, fmt, args) ==
    [p EXCEPT !.error = vsprintf_alloc(fmt, args)]

parse_fail(p, fmt, args) ==
    IF p.error # NULL THEN p
    ELSE [p EXCEPT !.error = vsprintf_alloc(fmt, args)]

tok_name(kind) ==
    CASE kind = TOK_INVALID -> "an invalid token"
      [] kind = TOK_EOF -> "the end of file"
      [] kind = TOK_INT -> "an integer"
      [] kind = TOK_FLOAT -> "a number"
      [] kind = TOK_TEXT -> "a word"
      [] OTHER -> "<bad token kind>"

syntax_error(p, kind) ==
    IF p.error # NULL THEN p
    ELSE parse_fail(p, "found %s, but needed %s",
                    <<tok_name(p.tok.kind), tok_name(kind)>>)

-----------------------------------------------------------------------------
(* The recursive descent primitives and the helpers.  Each operator gives  *)
(* the parser after the call and, where the C function returns a value,    *)
(* that value.                                                             *)

have(p, kind) == p.tok.kind = kind

match(p, kind) ==
    IF ~have(p, kind) THEN [p |-> p, ret |-> FALSE]
    ELSE [p |-> lex(p), ret |-> TRUE]

expect(p, kind) ==
    IF p.error # NULL THEN p
    ELSE IF ~have(p, kind) THEN syntax_error(p, kind)
    ELSE lex(p)

parse_int(p) ==
    IF p.error # NULL THEN [p |-> p, ret |-> I64(0)]
    ELSE LET q == IF ~have(p, TOK_INT) THEN syntax_error(p, TOK_INT) ELSE p
             val == ReadI64(q.tok.val)
         IN  [p |-> lex(q), ret |-> val]

parse_float(p) ==
    IF p.error # NULL THEN [p |-> p, ret |-> PosZero]
    ELSE IF ~have(p, TOK_INT) /\ ~have(p, TOK_FLOAT)
    THEN [p |-> syntax_error(p, TOK_FLOAT), ret |-> NAN]
    ELSE LET val == IF p.tok.kind = TOK_FLOAT THEN ReadF64(p.tok.val)
                    ELSE WidenI64(ReadI64(p.tok.val))
         IN  [p |-> lex(p), ret |-> val]

\* strncpy(dst, src, n) of <string.h>, with src at offset s: n bytes are
\* written, the source's up to its first NUL and NUL from there on.
strncpy(dst, s, n) ==
    [i \in 1..Len(dst) |->
        IF i > n THEN dst[i]
        ELSE IF \E j \in 1..i : Byte(s + j - 1) = NUL THEN NUL
        ELSE Byte(s + i - 1)]

\* size_t as a value of the model.
Size(n) == [cls |-> "size_t", n |-> n]

\* parse_text(parser, out, cap): o.null says that out is a null pointer,
\* o.bytes is the buffer out points to otherwise.
parse_text(p, o, cap) ==
    IF p.error # NULL THEN [p |-> p, ret |-> Size(0), out |-> o]
    ELSE IF ~have(p, TOK_TEXT)
    THEN [p |-> syntax_error(p, TOK_TEXT), ret |-> Size(0), out |-> o]
    ELSE LET len == p.tok.len
             src == p.tok.start
             q == lex(p)
         IN  IF o.null THEN [p |-> q, ret |-> Size(len), out |-> o]
             ELSE [p |-> q,
                   ret |-> Size(IF cap < len THEN cap ELSE len),
                   out |-> [o EXCEPT !.bytes = strncpy(o.bytes, src, cap)]]

-----------------------------------------------------------------------------
(* The state machine: a caller that initialises a parser over a borrowed   *)
(* span and then calls the API in any order.                               *)

Alphabet == {"1", "a", ".", " ", "("}    \* the bytes of the source spans
TailBytes == {"1"}                       \* what may follow the span in memory
Messages == {"msg1", "msg2"}             \* what callers hand to parse_fail
FILL == "?"                              \* what the caller's buffer holds before a call

SeqsUpTo(S, n) == UNION {[1..k -> S] : k \in 1..n}
Tails == {<<>>} \cup {<<b>> : b \in TailBytes}

\* A fresh buffer of MaxCap bytes, or a null pointer.
Buffer(null) ==
    [null |-> null, bytes |-> IF null THEN <<>> ELSE [i \in 1..MaxCap |-> FILL]]

\* The record of a call.  Arguments and results of different C types are
\* records of different fields, so that any two of them can be compared.
NoArg == [void |-> TRUE]
NoRet == [void |-> TRUE]
Kind(kind) == [kind |-> kind]
Msg(msg) == [msg |-> msg]
Bool(b) == [bool |-> b]
Call(op, arg, ret) == [op |-> op, arg |-> arg, ret |-> ret]

\* No call of make_token is in progress.
NoFrame == [active |-> FALSE]

\* The memory at parser->src belongs to the caller: the allocator never
\* handed it out.
BORROWED == [src |-> "borrowed", frees |-> 0]

Init ==
    \E s \in SeqsUpTo(Alphabet, MaxLen), t \in Tails :
        /\ mem = s \o t
        /\ parser = parse_init(Len(s))
        /\ out = Buffer(TRUE)
        /\ call = Call("parse_init", NoArg, NoRet)
        /\ frame = NoFrame
        /\ heap = BORROWED

Lex ==
    /\ parser' = lex(parser)
    /\ call' = Call("lex", NoArg, NoRet)
    /\ out' = Buffer(TRUE)
    /\ UNCHANGED <<mem, frame, heap>>

Have(kind) ==
    /\ call' = Call("have", Kind(kind), Bool(have(parser, kind)))
    /\ out' = Buffer(TRUE)
    /\ UNCHANGED <<mem, parser, frame, heap>>

Match(kind) ==
    /\ parser' = match(parser, kind).p
    /\ call' = Call("match", Kind(kind), Bool(match(parser, kind).ret))
    /\ out' = Buffer(TRUE)
    /\ UNCHANGED <<mem, frame, heap>>

Expect(kind) ==
    /\ parser' = expect(parser, kind)
    /\ call' = Call("expect", Kind(kind), NoRet)
    /\ out' = Buffer(TRUE)
    /\ UNCHANGED <<mem, frame, heap>>

ParseInt ==
    /\ parser' = parse_int(parser).p
    /\ call' = Call("parse_int", NoArg, parse_int(parser).ret)
    /\ out' = Buffer(TRUE)
    /\ UNCHANGED <<mem, frame, heap>>

ParseFloat ==
    /\ parser' = parse_float(parser).p
    /\ call' = Call("parse_float", NoArg, parse_float(parser).ret)
    /\ out' = Buffer(TRUE)
    /\ UNCHANGED <<mem, frame, heap>>

ParseText(null, cap) ==
    LET r == parse_text(parser, Buffer(null), cap) IN
    /\ parser' = r.p
    /\ out' = r.out
    /\ call' = Call("parse_text", [null |-> null, cap |-> cap], r.ret)
    /\ UNCHANGED <<mem, frame, heap>>

ParseFail(msg) ==
    /\ parser' = parse_fail(parser, msg, <<>>)
    /\ call' = Call("parse_fail", Msg(msg), NoRet)
    /\ out' = Buffer(TRUE)
    /\ UNCHANGED <<mem, frame, heap>>

Next ==
    \/ Lex
    \/ \E kind \in tok_kind_t : Have(kind)
    \/ \E kind \in tok_kind_t : Match(kind)
    \/ \E kind \in tok_kind_t : Expect(kind)
    \/ ParseInt
    \/ ParseFloat
    \/ \E null \in BOOLEAN, cap \in 0..MaxCap : ParseText(null, cap)
    \/ \E msg \in Messages : ParseFail(msg)

Spec == Init /\ [][Next]_vars

\* The same caller over sources that are lists of decimal integers, which
\* it only consumes: it lexes, matches and reads integers.
IntAlphabet == {"1", "2", "-", " ", LF}

\* Every maximal run of bytes that are no whitespace is an optional sign
\* and at least one digit.
IsIntList(s) ==
    \A i \in 1..Len(s) :
        /\ s[i] \in Digits \cup {"+", "-", " ", "\t", "\r", LF}
        /\ s[i] \in {"+", "-"} =>
              /\ i = 1 \/ s[i - 1] \in {" ", "\t", "\r", LF}
              /\ i < Len(s) /\ s[i + 1] \in Digits

InitInts ==
    \E s \in {x \in SeqsUpTo(IntAlphabet, MaxLen) : IsIntList(x)}, t \in Tails :
        /\ mem = s \o t
        /\ parser = parse_init(Len(s))
        /\ out = Buffer(TRUE)
        /\ call = Call("parse_init", NoArg, NoRet)
        /\ frame = NoFrame
        /\ heap = BORROWED

NextInts ==
    \/ Lex
    \/ \E kind \in tok_kind_t : Match(kind)
    \/ ParseInt

SpecInts == InitInts /\ [][NextInts]_vars

\* A caller that only scans: it lexes, matches and expects.
NextScan ==
    \/ Lex
    \/ \E kind \in tok_kind_t : Match(kind)
    \/ \E kind \in tok_kind_t : Expect(kind)

\* The same over sources that hold nothing but whitespace and comments.
BlankAlphabet == {" ", "\t", "\r", LF, "#", "a"}

\* Every byte of s is a space, a tab, a CR or an LF, or it lies in a
\* comment: on a line that holds a '#' at or before it.
IsBlank(s) ==
    \A i \in 1..Len(s) :
        \/ s[i] \in {" ", "\t", "\r", LF}
        \/ \E j \in 1..i : s[j] = "#" /\ \A k \in j..i : s[k] # LF

InitBlank ==
    \E s \in {x \in SeqsUpTo(BlankAlphabet, MaxLen) : IsBlank(x)}, t \in Tails :
        /\ mem = s \o t
        /\ parser = parse_init(Len(s))
        /\ out = Buffer(TRUE)
        /\ call = Call("parse_init", NoArg, NoRet)
        /\ frame = NoFrame
        /\ heap = BORROWED

SpecBlank == InitBlank /\ [][NextScan]_vars


\* The same over sources that mix digits, letters, punctuation, blanks,
\* newlines, comments and a byte that is no token character.
ScanAlphabet == {"1", "a", ".", "-", " ", LF, "#", "("}

InitScan ==
    \E s \in SeqsUpTo(ScanAlphabet, MaxLen), t \in Tails :
        /\ mem = s \o t
        /\ parser = parse_init(Len(s))
        /\ out = Buffer(TRUE)
        /\ call = Call("parse_init", NoArg, NoRet)
        /\ frame = NoFrame
        /\ heap = BORROWED

SpecScan == InitScan /\ [][NextScan]_vars


-----------------------------------------------------------------------------
(* The scanner followed one character at a time: parse_init has set the    *)
(* fields and calls lex; lex runs down to make_token's first advance, and  *)
(* then each step is one turn of make_token's loop.                        *)

MaxLexeme == 5   \* longest source span of the lexemes followed this way

LexAlphabet == {"1", ".", "e", "-", "+"}

\* The locals of make_token.
Frame(state, len) == [active |-> TRUE, state |-> state, len |-> len]

InitLexemes ==
    \E s \in SeqsUpTo(LexAlphabet, MaxLexeme), t \in Tails :
        /\ mem = s \o t
        /\ parser = parse_init_fields(Len(s))
        /\ out = Buffer(TRUE)
        /\ call = Call("parse_init", NoArg, NoRet)
        /\ frame = NoFrame
        /\ heap = BORROWED

\* lex, down to its return or, where it calls make_token, down to the
\* advance(parser) before make_token's loop.
LexStart ==
    /\ ~frame.active
    /\ \E t \in {lex_start(parser)} :
          IF parser.error = NULL /\ peek(t) # EOF /\ is_tok_char(peek(t))
          THEN /\ parser' = advance(t).p
               /\ frame' = Frame(STATE_INT, 1)
          ELSE /\ parser' = lex(parser)
               /\ frame' = NoFrame
    /\ call' = Call("lex", NoArg, NoRet)
    /\ out' = Buffer(TRUE)
    /\ UNCHANGED <<mem, heap>>

\* One turn of make_token's loop and, when it breaks, the rest of
\* make_token.
MakeTokenTurn ==
    /\ frame.active
    /\ \E t \in {make_token_turn(parser, frame.state, frame.len)} :
          IF t.done
          THEN /\ parser' = make_token_end(t.p, t.state, t.len)
               /\ frame' = NoFrame
          ELSE /\ parser' = t.p
               /\ frame' = Frame(t.state, t.len)
    /\ UNCHANGED <<mem, out, call, heap>>

NextLexemes == LexStart \/ MakeTokenTurn

SpecLexemes == InitLexemes /\ [][NextLexemes]_vars


-----------------------------------------------------------------------------
(* The life of a parser: one of the three constructors, calls that scan    *)
(* and fail, and parse_fini.  `heap` follows the memory at parser->src:    *)
(* whose it is, and how often free() was called on it.                     *)

\* The buffer that parse_init_file gets from PARSE_CALLOC.
ALLOCATED == [src |-> "allocated", frees |-> 0]

\* There is no source buffer at all.
NO_BUFFER == [src |-> "none", frees |-> 0]

\* free(ptr) on the memory that h follows.
free(h) ==
    [h EXCEPT !.src = IF h.src = "allocated" THEN "freed" ELSE h.src,
              !.frees = h.frees + 1]

\* parse_init_file(parser, f) on a file of size bytes, read into a fresh
\* buffer of size + 1 bytes.  (An empty file fails parse_init's assertion
\* len > 0; files here hold one byte at least.)
parse_init_file(size) == [parse_init(size) EXCEPT !.owns_src = TRUE]

Paths == {"a.txt"}
StrErrors == {"No such file or directory", "Permission denied"}

\* parse_init_path(parser, path) when fopen fails with the error that
\* strerror prints as msg.
parse_init_path_failed(path, msg) ==
    parse_fail(ZeroParser, "can't open '%s' (%s)", <<path, msg>>)

\* parse_fini that frees parser->src whenever it is not null.
parse_fini_any_src(p) ==
    [p |-> ZeroParser,
     freed |-> (IF p.src # NULLPTR THEN <<"src">> ELSE <<>>)
               \o (IF p.error # NULL THEN <<"error">> ELSE <<>>)]

\* parse_fini(parser): the parser after it and the pointers it hands to
\* free(), in order.
parse_fini(p) ==
    [p |-> ZeroParser,
     freed |-> (IF p.src # NULLPTR /\ p.owns_src THEN <<"src">> ELSE <<>>)
               \o (IF p.error # NULL THEN <<"error">> ELSE <<>>)]

Path(path) == [path |-> path]
Opened(b) == [opened |-> b]
Freed(ptrs) == [freed |-> ptrs]

InitLife ==
    /\ out = Buffer(TRUE)
    /\ frame = NoFrame
    /\ \/ \E s \in SeqsUpTo(Alphabet, MaxLen), t \in Tails :
             /\ mem = s \o t
             /\ parser = parse_init(Len(s))
             /\ heap = BORROWED
             /\ call = Call("parse_init", NoArg, NoRet)
       \/ \E s \in SeqsUpTo(Alphabet, MaxLen) :
             /\ mem = s \o <<NUL>>
             /\ parser = parse_init_file(Len(s))
             /\ heap = ALLOCATED
             /\ \/ call = Call("parse_init_file", NoArg, NoRet)
                \/ \E path \in Paths : call = Call("parse_init_path", Path(path), Opened(TRUE))
       \/ \E path \in Paths, msg \in StrErrors :
             /\ mem = <<>>
             /\ parser = parse_init_path_failed(path, msg)
             /\ heap = NO_BUFFER
             /\ call = Call("parse_init_path", Path(path), Opened(FALSE))

ParseFini ==
    LET r == parse_fini(parser) IN
    /\ parser' = r.p
    /\ heap' = IF \E i \in 1..Len(r.freed) : r.freed[i] = "src" THEN free(heap) ELSE heap
    /\ call' = Call("parse_fini", NoArg, Freed(r.freed))
    /\ out' = Buffer(TRUE)
    /\ UNCHANGED <<mem, frame>>

NextLife ==
    \/ Lex
    \/ \E msg \in Messages : ParseFail(msg)
    \/ ParseFini

SpecLife == InitLife /\ [][NextLife]_vars


-----------------------------------------------------------------------------
(* What the claims speak of.                                               *)

\* The cursor offset, the line and column counters and the whole current
\* token are the same in parsers p and q.
SameCursor(p, q) ==
    /\ q.ptr = p.ptr
    /\ q.line = p.line
    /\ q.column = p.column
    /\ q.tok = p.tok

ConsumptionOps ==
    {"lex", "have", "match", "expect", "parse_int", "parse_float", "parse_text"}

\* C1: once an error is latched, a call to lex, have, match, expect,
\* parse_int, parse_float or parse_text leaves the cursor offset, the line
\* and column counters and the whole current token unchanged.
C1_FrozenOnceLatched ==
    [][(parser.error # NULL /\ call'.op \in ConsumptionOps)
          => SameCursor(parser, parser')]_vars

\* An error is latched, bytes are left to scan, and match has just been
\* called with the kind of the current token (match latches no error, so
\* the error was there when it was called).
C1_Witness ==
    /\ parser.error # NULL
    /\ call.op = "match"
    /\ call.ret = Bool(TRUE)
    /\ parser.ptr < parser.end

\* The message of the failure that the call c can report on parser p:
\* parse_fail's own, or "found X, but needed Y" with X the current kind.
FailureOf(p, c) ==
    LET needed(kind) ==
            <<"found %s, but needed %s", tok_name(p.tok.kind), tok_name(kind)>>
    IN  CASE c.op = "parse_fail" -> <<c.arg.msg>>
          [] c.op = "expect" -> needed(c.arg.kind)
          [] c.op = "parse_int" -> needed(TOK_INT)
          [] c.op = "parse_float" -> needed(TOK_FLOAT)
          [] c.op = "parse_text" -> needed(TOK_TEXT)
          [] OTHER -> NULL

\* C3: once an error message is latched no later operation replaces or
\* clears it, and a call that finds no error latched latches at most the
\* one message of its own failure.
C3_FirstErrorWins ==
    [][/\ parser.error # NULL => parser'.error = parser.error
       /\ parser.error = NULL =>
             (parser'.error = NULL \/ parser'.error = FailureOf(parser, call'))
      ]_vars

\* parse_fail has just been called with a message that is not the latched
\* one: it found an earlier error and kept it.
C3_Witness ==
    /\ call.op = "parse_fail"
    /\ parser.error # NULL
    /\ parser.error # vsprintf_alloc(call.arg.msg, <<>>)

-----------------------------------------------------------------------------
(* The token boundaries of the source as the scanner's contract gives      *)
(* them, read off the bytes of the span alone: a token is a maximal run of *)
(* token characters or one other byte; whitespace and '#' comments to the  *)
(* end of the line separate tokens.                                        *)

\* The offset of the end of the line that holds offset i.
RECURSIVE EndOfLine(_)
EndOfLine(i) ==
    IF i >= parser.end \/ Byte(i) = LF THEN i ELSE EndOfLine(i + 1)

\* The offset of the first byte at or after i that is neither whitespace
\* nor part of a comment: where the next token starts, or the end.
RECURSIVE SkipBlank(_)
SkipBlank(i) ==
    IF i >= parser.end THEN parser.end
    ELSE IF Byte(i) \in {" ", "\t", "\r", LF} THEN SkipBlank(i + 1)
    ELSE IF Byte(i) = "#" THEN SkipBlank(EndOfLine(i))
    ELSE i

\* The length of the maximal run of token characters that starts at i.
RECURSIVE RunLen(_)
RunLen(i) ==
    IF i < parser.end /\ is_tok_char(Byte(i)) THEN 1 + RunLen(i + 1) ELSE 0

\* The length of the lexeme of the token that starts at offset i.
LexemeLen(i) ==
    IF i >= parser.end THEN 0
    ELSE IF is_tok_char(Byte(i)) THEN RunLen(i)
    ELSE 1

\* From parser p to parser q the current token was consumed and the next
\* token of the input became current: q's token starts where the first
\* token after p's lexeme starts, and it is EndOfFile exactly when no token
\* is left.
AdvancedOneToken(p, q) ==
    LET next == SkipBlank(p.tok.start + LexemeLen(p.tok.start)) IN
    /\ q.tok.start = next
    /\ (q.tok.kind = TOK_EOF) <=> (next = parser.end)

\* C2: after a latched error match returns false, parse_int returns 0,
\* parse_float returns 0 or NaN, parse_text returns 0 and writes nothing,
\* whatever the kind of the current token.
C2_DefaultsOnceLatched ==
    [][parser.error # NULL =>
          /\ call'.op = "match" => call'.ret = Bool(FALSE)
          /\ call'.op = "parse_int" => call'.ret = I64(0)
          /\ call'.op = "parse_float" => (call'.ret = PosZero \/ call'.ret = NAN)
          /\ call'.op = "parse_text" =>
                /\ call'.ret = Size(0)
                /\ out' = Buffer(call'.arg.null)]_vars

\* C4: with no error latched, parse_int on a token that is no Integer
\* latches an error, returns 0 and does not advance; on an Integer it
\* returns the token's decoded value and advances exactly one token.
C4_ParseInt ==
    [][(parser.error = NULL /\ call'.op = "parse_int") =>
          IF parser.tok.kind # TOK_INT
          THEN /\ parser'.error # NULL
               /\ call'.ret = I64(0)
               /\ SameCursor(parser, parser')
          ELSE /\ parser'.error = NULL
               /\ call'.ret = parser.tok.val
               /\ AdvancedOneToken(parser, parser')]_vars

\* C5: parse_text on a Word returns the true length of the lexeme, for
\* every output buffer and capacity.
C5_ParseTextLength ==
    [][(parser.error = NULL /\ parser.tok.kind = TOK_TEXT
            /\ call'.op = "parse_text")
          => call'.ret = Size(LexemeLen(parser.tok.start))]_vars

\* What parse_text may leave in a buffer: the first min(cap, len) bytes of
\* the lexeme at offset start, and what the buffer held after them.
Copied(null, start, len, cap) ==
    [null |-> null,
     bytes |-> IF null THEN <<>>
               ELSE [i \in 1..MaxCap |->
                        IF i <= cap /\ i <= len THEN Byte(start + i - 1)
                        ELSE FILL]]

\* C6: parse_text writes exactly the first min(cap, len) bytes of the Word
\* it consumes and nothing else, and writes nothing when the buffer is
\* null, the capacity is 0, the token is no Word or an error is latched.
C6_ParseTextWrites ==
    [][call'.op = "parse_text" =>
          out' = IF parser.error = NULL /\ parser.tok.kind = TOK_TEXT
                 THEN Copied(call'.arg.null, parser.tok.start,
                             LexemeLen(parser.tok.start), call'.arg.cap)
                 ELSE Buffer(call'.arg.null)]_vars

\* C7: with no error latched, expect(kind) advances exactly one token and
\* latches no error when have(kind) is true, and latches an error without
\* advancing when have(kind) is false.
C7_Expect ==
    [][(parser.error = NULL /\ call'.op = "expect") =>
          IF have(parser, call'.arg.kind)
          THEN /\ parser'.error = NULL
               /\ AdvancedOneToken(parser, parser')
          ELSE /\ parser'.error # NULL
               /\ SameCursor(parser, parser')]_vars

\* C8: with no error latched, match(kind) returns true exactly when the
\* current token has that kind; returning false it changes nothing,
\* returning true it makes the next token of the input current.  have
\* changes no state.
C8_MatchHave ==
    [][/\ (parser.error = NULL /\ call'.op = "match") =>
             /\ call'.ret = Bool(parser.tok.kind = call'.arg.kind)
             /\ call'.ret = Bool(FALSE) => parser' = parser
             /\ call'.ret = Bool(TRUE) =>
                   (parser'.error = NULL /\ AdvancedOneToken(parser, parser'))
       /\ call'.op = "have" => (parser' = parser /\ mem' = mem)
      ]_vars

\* The double that equals the int64_t i.
AsDouble(i) == F64(i.n < 0, IF i.n < 0 THEN -i.n ELSE i.n, 0)

\* C9: with no error latched, parse_float on an Integer or Float token
\* returns its value as a double (an Integer's value widened) and advances
\* exactly one token; on any other token it latches an error, returns NaN
\* and does not advance.
C9_ParseFloat ==
    [][(parser.error = NULL /\ call'.op = "parse_float") =>
          IF parser.tok.kind \in {TOK_INT, TOK_FLOAT}
          THEN /\ parser'.error = NULL
               /\ call'.ret = IF parser.tok.kind = TOK_FLOAT THEN parser.tok.val
                              ELSE AsDouble(parser.tok.val)
               /\ AdvancedOneToken(parser, parser')
          ELSE /\ parser'.error # NULL
               /\ call'.ret = NAN
               /\ SameCursor(parser, parser')]_vars

\* The source span, without the bytes that follow it in memory.
Span == SubSeq(mem, 1, parser.end)

\* The number that the digits at offsets i .. i+n-1 write in base 10,
\* continuing acc.
RECURSIVE DecimalValue(_, _, _)
DecimalValue(i, n, acc) ==
    IF n = 0 THEN acc
    ELSE DecimalValue(i + 1, n - 1, acc * 10 + DigitVal(Byte(i)))

\* The value of the integer literal that is the n bytes at offset i.
LiteralValue(i, n) ==
    IF Byte(i) = "-" THEN -DecimalValue(i + 1, n - 1, 0)
    ELSE IF Byte(i) = "+" THEN DecimalValue(i + 1, n - 1, 0)
    ELSE DecimalValue(i, n, 0)

\* The current token of p is the integer of the list that starts at its
\* offset, an Integer token with that literal's length and value, or it is
\* EndOfFile at the end of the span.
IsListToken(p) ==
    IF p.tok.start < p.end
    THEN /\ p.tok.kind = TOK_INT
         /\ p.tok.len = LexemeLen(p.tok.start)
         /\ p.tok.val = I64(LiteralValue(p.tok.start, LexemeLen(p.tok.start)))
    ELSE p.tok.kind = TOK_EOF

\* The step consumes the current token: a lex, a parse_int on an Integer
\* or a match that returns true.
Consumes ==
    \/ call'.op = "lex"
    \/ call'.op = "parse_int" /\ parser.tok.kind = TOK_INT
    \/ call'.op = "match" /\ call'.ret = Bool(TRUE)

\* C10: over a source that is N whitespace-separated decimal integers the
\* first token is the first integer, every token is the Integer token of
\* its literal or EndOfFile after the last one, consuming a token makes
\* the next integer of the list current, and no error is latched.
C10_IntegersRoundTrip ==
    [][(IsIntList(Span) /\ parser.error = NULL) =>
          /\ call.op = "parse_init" => parser.tok.start = SkipBlank(0)
          /\ IsListToken(parser)
          /\ Consumes =>
                /\ parser'.error = NULL
                /\ AdvancedOneToken(parser, parser')
                /\ IsListToken(parser')
                /\ call'.op = "parse_int" => call'.ret = parser.tok.val]_vars

\* C11: over a non-empty input made only of whitespace and '#' comments
\* the lex of parse_init ends with the EndOfFile token at the end of the
\* input and no error latched, also when the last comment has no newline.
C11_BlankInputIsEndOfFile ==
    (call.op = "parse_init" /\ IsBlank(Span)) =>
        /\ parser.tok.kind = TOK_EOF
        /\ parser.tok.start = parser.end
        /\ parser.ptr = parser.end
        /\ parser.error = NULL

\* parse_init has scanned an input whose last line is a comment that no
\* newline ends.
C11_Witness ==
    /\ call.op = "parse_init"
    /\ IsBlank(Span)
    /\ \E j \in 1..Len(Span) : Span[j] = "#" /\ \A k \in j..Len(Span) : Span[k] # LF
    /\ parser.tok.kind = TOK_EOF

\* The current token is one that make_token classified.
IsLexemeToken(p) == p.tok.kind \in {TOK_INT, TOK_FLOAT, TOK_TEXT}

\* C12: a token is Integer only when every character of its lexeme is a
\* digit, a leading '+' or '-' apart, and a lexeme that begins with a
\* letter is Word.
C12_IntegerOnlyIfDigits ==
    LET i == parser.tok.start
        n == RunLen(i)
    IN  IsLexemeToken(parser) =>
            /\ parser.tok.kind = TOK_INT =>
                   \A k \in i..(i + n - 1) :
                       isdigit(Byte(k)) \/ (k = i /\ Byte(k) \in {"+", "-"})
            /\ Byte(i) \in Letters => parser.tok.kind = TOK_TEXT

\* The m bytes at offset i are a mantissa: an optional sign, then digits
\* with at most one '.', one digit at least.
IsMantissa(i, m) ==
    LET lo == IF Byte(i) \in {"+", "-"} THEN i + 1 ELSE i
        hi == i + m - 1
    IN  /\ \A k \in lo..hi : isdigit(Byte(k)) \/ Byte(k) = "."
        /\ \E k \in lo..hi : isdigit(Byte(k))
        /\ Cardinality({k \in lo..hi : Byte(k) = "."}) <= 1

\* The m bytes at offset j are a sign and at least one digit.
IsSignedDigits(j, m) ==
    /\ m >= 2
    /\ Byte(j) \in {"+", "-"}
    /\ \A k \in (j + 1)..(j + m - 1) : isdigit(Byte(k))

\* The n bytes at offset i are a mantissa and an 'e' or 'E' that no sign
\* with digits follows.
HasIncompleteExponent(i, n) ==
    \E k \in (i + 1)..(i + n - 1) :
        /\ Byte(k) \in {"e", "E"}
        /\ IsMantissa(i, k - i)
        /\ ~IsSignedDigits(k + 1, i + n - 1 - k)

\* C13: a lexeme with an incomplete exponent is classified Word.
C13_IncompleteExponentIsWord ==
    (~frame.active /\ IsLexemeToken(parser)
        /\ HasIncompleteExponent(parser.tok.start, RunLen(parser.tok.start)))
    => parser.tok.kind = TOK_TEXT

\* The number of newline bytes at the offsets i .. j-1 of the source.
CountLF(i, j) == Cardinality({k \in i..(j - 1) : Byte(k) = LF})

\* C14: the line recorded in the current token is the number of newlines
\* before its start, and once the input is scanned to EndOfFile without
\* error the line counter is the number of newlines of the input.
C14_LineCountsNewlines ==
    /\ parser.tok.line = CountLF(0, parser.tok.start)
    /\ (parser.error = NULL /\ parser.tok.kind = TOK_EOF) =>
           parser.line = CountLF(0, parser.end)

\* C15: a current token of kind Integer, Float, Word or Invalid has a
\* positive len and the view [start, start + len) lies in the source span
\* and is the lexeme: the maximal run of token characters at start, or the
\* one byte at start for an Invalid token.
C15_TokenView ==
    parser.tok.kind \in {TOK_INT, TOK_FLOAT, TOK_TEXT, TOK_INVALID} =>
        /\ parser.tok.len > 0
        /\ parser.tok.start >= 0
        /\ parser.tok.start + parser.tok.len <= parser.end
        /\ parser.tok.len = LexemeLen(parser.tok.start)
        /\ parser.tok.kind = TOK_INVALID => parser.tok.len = 1

\* C16: parse_fini frees the source buffer exactly when the allocator
\* handed it out for this parser and it is not freed yet: a borrowed span
\* is never freed, the buffer of parse_init_file is freed by the first
\* parse_fini and by no later one, and after a parse_init_path that could
\* not open its path the parser has an error latched and no buffer, and
\* parse_fini frees the error message alone.
C16_TeardownFreesOwnedBuffer ==
    [][/\ heap.src = "borrowed" => heap' = heap
       /\ heap.src = "freed" => heap' = heap
       /\ heap.src = "none" => heap' = heap
       /\ (call.op = "parse_init_path" /\ call.ret = Opened(FALSE)) =>
              /\ parser.error # NULL
              /\ parser.src = NULLPTR
              /\ heap = NO_BUFFER
       /\ call'.op = "parse_fini" =>
              /\ heap.src = "allocated" => heap' = [src |-> "freed", frees |-> 1]
              /\ call'.ret = Freed((IF heap.src = "allocated" THEN <<"src">> ELSE <<>>)
                                   \o (IF parser.error # NULL THEN <<"error">> ELSE <<>>))
              /\ parser'.error = NULL
              /\ parser'.src = NULLPTR]_vars

\* parse_fini has freed the buffer of parse_init_file, once, and with it a
\* latched error message.
C16_Witness ==
    /\ call.op = "parse_fini"
    /\ call.ret = Freed(<<"src", "error">>)
    /\ heap = [src |-> "freed", frees |-> 1]

\* How far a classification state is from the most restrictive one.
Rank(state) ==
    CASE state = STATE_INT -> 0
      [] state = STATE_FLOAT -> 1
      [] state = STATE_EXP_SIGN -> 2
      [] state = STATE_EXP -> 3
      [] state = STATE_TEXT -> 4

\* C17: the scan of a lexeme starts in Integer; a turn of the loop never
\* moves the state back along Integer, Float, ExpSign, Exp, Text; in Text
\* every token character is accepted and leaves the state Text; and a
\* scan that ends in Text gives a Word.
C17_StateOnlyRelaxes ==
    [][/\ (~frame.active /\ frame'.active) => frame' = Frame(STATE_INT, 1)
       /\ (frame.active /\ frame'.active) =>
              /\ Rank(frame'.state) >= Rank(frame.state)
              /\ frame'.len = frame.len + 1
       /\ (frame.active /\ frame.state = STATE_TEXT) =>
              /\ (parser.ptr < parser.end /\ is_tok_char(Byte(parser.ptr))) =>
                     frame' = Frame(STATE_TEXT, frame.len + 1)
              /\ ~frame'.active =>
                     /\ parser'.tok.kind = TOK_TEXT
                     /\ parser'.tok.len = frame.len]_vars

\* The scan reached Text at the 'e' after the first character and has
\* accepted at least one more token character since.
C17_Witness ==
    /\ frame.active
    /\ frame.state = STATE_TEXT
    /\ Byte(parser.tok.start + 1) = "e"
    /\ frame.len >= 3

\* C18: while the current token is an Integer, a Float or a Word, the
\* cursor is on the first byte after its lexeme: the byte that ended the
\* run is not consumed.
C18_CursorAfterLexeme ==
    IsLexemeToken(parser) => parser.ptr = parser.tok.start + parser.tok.len

\* The step is a match or an expect of the kind of the current token.
ConsumesCurrentKind ==
    /\ call'.op \in {"match", "expect"}
    /\ call'.arg = Kind(parser.tok.kind)

\* C19: with no error latched and a current token that is not EndOfFile,
\* a match or an expect of the current kind moves on: the cursor does not
\* go back and the new current token starts after the start of the old
\* one, so the distance to the end of the input shrinks with every token
\* consumed.
C19_ConsumptionAdvances ==
    [][(parser.error = NULL /\ parser.tok.kind # TOK_EOF /\ ConsumesCurrentKind) =>
          /\ parser'.error = NULL
          /\ parser'.ptr >= parser.ptr
          /\ parser'.tok.start > parser.tok.start]_vars

\* C20: over a borrowed span the cursor stays between the start and the
\* end of the span, and advance has dereferenced no offset at or past the
\* end.
C20_ReadsInsideSpan ==
    heap = BORROWED =>
        /\ parser.ptr \in 0..parser.end
        /\ parser.oob = {}

====
